---- MODULE Spec2Model ----
(***************************************************************************)
(* Model of src/central.rs: the OLED status display controller of the      *)
(* falange keyboard (DisplayController).  The controller is one async      *)
(* task: the polling loop takes either the next message of its             *)
(* subscription (process_event) or the periodic timer (update).  The task  *)
(* suspends only inside update(), while the bounded hardware operation     *)
(* (draw + flush, or init) is awaited; producers may publish meanwhile.    *)
(***************************************************************************)
EXTENDS Integers, Sequences, FiniteSets, TLC

VARIABLES
    layer,        \* self.layer: u8
    modifiers,    \* self.modifiers: ModifierCombination, its 8 bits as 0..255
    battery,      \* self.battery: u8
    display,      \* self.display: Option<Display>; 0 is None, n > 0 is session n
    held,         \* update()'s local `display` while the hardware op is awaited
    lastId,       \* id of the driver session constructed most recently
    fb,           \* frame buffer of the live session: the primitives it holds
    flushed,      \* the last frame a successful flush sent to the device, and
                  \* the <<layer, modifiers, battery>> it was drawn from
    sub,          \* self.sub: the messages queued for this subscriber
    pc,           \* where the task is: idle, drawing, initializing, panicked
    last,         \* what the handler invocation in progress / just ended did
                  \* (stale: the buffer held primitives the pass did not draw)
    tickUpdates   \* update() calls since (and including) the last timer poll:
                  \* 0, 1, or 2 for two or more

vars == <<layer, modifiers, battery, display, held, lastId, fb, flushed, sub,
          pc, last, tickUpdates>>

----------------------------------------------------------------------------
(* Bounds of the exploration *)

\* capacity of the subscription queue explored
MaxQueue == 3
\* largest Layer payload explored (the payload type is u8)
MaxLayer == 8

----------------------------------------------------------------------------
(* Program constants *)

LAYER_NAMES == <<"BASE", "NAV", "SYM", "NUM", "ACC", "COM", "GAME", "GAME">>

\* draw().with_timeout(Duration::from_millis(100))
DRAW_TIMEOUT_MS == 100
\* init().with_timeout(Duration::from_secs(1))
INIT_TIMEOUT_MS == 1000
\* `if self.sub.len() < 2`
QUEUE_THRESHOLD == 2
\* FONT_9X18: character_size.height
FONT_HEIGHT == 18
\* u8
U8_MAX == 255

----------------------------------------------------------------------------
(* Inputs: events of the controller channel and hardware responses *)

Event(kind, val) == [kind |-> kind, val |-> val]

\* ControllerEvent as published on CONTROLLER_CHANNEL; "Other" stands for
\* every kind the `_ => ()` arm takes.  The alphabet explored by Spec.
Events ==
    { Event("Layer", MaxLayer), Event("Modifier", 2), Event("Battery", 4),
      Event("Other", 0) }

\* How long the device takes to answer, in ms, and what it answers.
\* Answers explored: at once, after the draw deadline, after both deadlines.
Responses ==
    { [latency |-> 10, result |-> "ok"], [latency |-> 10, result |-> "err"],
      [latency |-> 500, result |-> "ok"], [latency |-> 5000, result |-> "ok"] }

\* Draw calls explored as the failing one (0: none fails).
FailPoints == {0, 2}
NoResponse == [latency |-> 0, result |-> "none"]

----------------------------------------------------------------------------
(* ModifierCombination: bit k of the packed u8 *)

Bit(m, k) == (m \div (2 ^ k)) % 2 = 1

\* the right-hand flag forgotten
ShiftHeldLeftOnly(m) == Bit(m, 1)

ShiftHeld(m) == Bit(m, 1) \/ Bit(m, 5)
CtrlHeld(m) == Bit(m, 0) \/ Bit(m, 4)
AltHeld(m) == Bit(m, 2) \/ Bit(m, 6)
GuiHeld(m) == Bit(m, 3) \/ Bit(m, 7)

----------------------------------------------------------------------------
(* DisplayController::draw: the primitives of one pass.  A primitive is a  *)
(* record: text is placed relative to graphics.layer_center, icons and     *)
(* bars relative to the centre of the display, the gauge in surface        *)
(* coordinates (dx = left column, dy = top row, h = rows).                 *)

Prim(kind, what, idx, style, dx, dy, h) ==
    [kind |-> kind, what |-> what, idx |-> idx, style |-> style,
     dx |-> dx, dy |-> dy, h |-> h]

\* LAYER_NAMES[i]: indexing outside the array panics
TextPrim(i, dy, style) ==
    IF i \in 0..(Len(LAYER_NAMES) - 1)
    THEN Prim("text", LAYER_NAMES[i + 1], i, style, 0, dy, 0)
    ELSE Prim("panic", "index out of bounds", i, style, 0, dy, 0)

\* character_style.font.character_size.height as i32 / 3 * 2
LabelOffset == (FONT_HEIGHT \div 3) * 2

\* off by one: the previous name only from the third layer on
AboveStepsFromSecond(l) ==
    IF l > 1 THEN <<TextPrim(l - 1, 0 - LabelOffset, "character_smaller")>>
    ELSE <<>>

AboveSteps(l) ==
    IF l > 0 THEN <<TextPrim(l - 1, 0 - LabelOffset, "character_smaller")>>
    ELSE <<>>

BelowSteps(l) ==
    IF l < Len(LAYER_NAMES) - 1
    THEN <<TextPrim(l + 1, LabelOffset, "character_smaller")>>
    ELSE <<>>

CenterSteps(l) == <<TextPrim(l, 0, "character_style")>>

\* Image::with_center(raw, center + (dx, 0)).translate((0, held as i32 * -4)),
\* then the underline bar Rectangle::with_center(center + (dx, 5), 12 x 2)
FamilySteps(raw, isHeld, dx) ==
    <<Prim("image", raw, -1, "", dx, (IF isHeld THEN 1 ELSE 0) * (-4), 0)>>
    \o (IF isHeld THEN <<Prim("rect", "bar", -1, "fill_style", dx, 5, 2)>>
        ELSE <<>>)

ModifierSteps(m) ==
    FamilySteps("raw_shift", ShiftHeld(m), 0)
    \o FamilySteps("raw_ctrl", CtrlHeld(m), 15)
    \o FamilySteps("raw_alt", AltHeld(m), 30)
    \o FamilySteps("raw_gui", GuiHeld(m), 45)

Min(a, b) == IF a < b THEN a ELSE b
Abs(a) == IF a < 0 THEN 0 - a ELSE a

\* Rectangle::with_corners(c1, c2): top = min of the rows, both corner rows
\* are part of the rectangle
CornersRect(what, style, x1, y1, x2, y2) ==
    Prim("rect", what, -1, style, Min(x1, x2), Min(y1, y2), Abs(y1 - y2) + 1)

OutlineRect == CornersRect("outline", "stroke_style", 123, 0, 127, 31)

\* the row of the fill's first corner: 32 - (self.battery as i32 * 32) / 100
FillTop(b) == 32 - ((b * 32) \div 100)

\* corners (124, 32 - (battery as i32 * 32) / 100) and (126, 31)
FillRect(b) == CornersRect("fill", "fill_style", 124, FillTop(b), 126, 31)

\* every primitive the pass issues when nothing fails, in order
DrawSteps(l, m, b) ==
    AboveSteps(l) \o BelowSteps(l) \o CenterSteps(l) \o ModifierSteps(m)
    \o <<OutlineRect, FillRect(b)>>

\* the longest pass: both neighbours, four held families, the gauge
MaxSteps == Len(DrawSteps(1, U8_MAX, 0))

FirstPanic(steps) ==
    LET bad == {i \in 1..Len(steps) : steps[i].kind = "panic"}
    IN IF bad = {} THEN Len(steps) + 1
       ELSE CHOOSE i \in bad : \A j \in bad : i <= j

\* a failed draw call skipped over instead of returned with `?`
DrawPassIgnoreErr(l, m, b, failAt) ==
    LET steps == DrawSteps(l, m, b)
        p == FirstPanic(steps)
        kept == {i \in 1..Len(steps) : i # failAt}
        Pick[i \in 0..Len(steps)] ==
            IF i = 0 THEN <<>>
            ELSE IF i \in kept THEN Append(Pick[i - 1], steps[i])
            ELSE Pick[i - 1]
    IN IF p <= Len(steps)
       THEN [ops |-> SubSeq(steps, 1, p - 1), status |-> "panic"]
       ELSE [ops |-> Pick[Len(steps)], status |-> "flush"]

\* The synchronous part of draw(): clear_buffer, then each primitive with `?`.
\* failAt = k > 0: the k-th draw call returns Err.  ops: the primitives drawn
\* into the buffer; status: "flush" when the pass got as far as flush().
DrawPass(l, m, b, failAt) ==
    LET steps == DrawSteps(l, m, b)
        p == FirstPanic(steps)
        f == IF failAt \in 1..Len(steps) THEN failAt ELSE Len(steps) + 1
    IN IF p <= Len(steps) /\ p <= f
       THEN [ops |-> SubSeq(steps, 1, p - 1), status |-> "panic"]
       ELSE IF f <= Len(steps)
       THEN [ops |-> SubSeq(steps, 1, f - 1), status |-> "err"]
       ELSE [ops |-> steps, status |-> "flush"]

\* fut.with_timeout(deadline): the answer if it came before the deadline
WithTimeout(deadline, resp) ==
    IF resp.latency < deadline THEN resp.result ELSE "timeout"

Range(s) == {s[i] : i \in 1..Len(s)}

\* the pass draws over whatever the buffer held
ClearBufferSkipped(buf) == buf

\* display.clear_buffer()
ClearBuffer(buf) == {}

\* the buffer after a pass that drew `ops` into the buffer `buf`
BufferAfter(buf, ops) == ClearBuffer(buf) \cup Range(ops)

Frame(ops, l, m, b) == [ops |-> ops, from |-> <<l, m, b>>]
NoFrame == [ops |-> <<>>, from |-> <<>>]

----------------------------------------------------------------------------
(* Controller::process_event and PollingController::update *)

\* the match of process_event: each arm overwrites one field
LayerAfter(event, l) == IF event.kind = "Layer" THEN event.val ELSE l

BitOr(a, b) ==
    LET S[k \in 0..8] ==
            IF k = 8 THEN 0
            ELSE (IF Bit(a, k) \/ Bit(b, k) THEN 2 ^ k ELSE 0) + S[k + 1]
    IN S[0]

\* the new mask merged into the old one
ModifiersAfterMerged(event, m) ==
    IF event.kind = "Modifier" THEN BitOr(m, event.val) ELSE m

ModifiersAfter(event, m) == IF event.kind = "Modifier" THEN event.val ELSE m
BatteryAfter(event, b) == IF event.kind = "Battery" THEN event.val ELSE b

\* off by one: `<= 2` in place of `< 2`
ProcessEventUpdatesLoose(depth) == IF depth <= QUEUE_THRESHOLD THEN 1 ELSE 0

\* the queue test dropped: every event redraws
ProcessEventUpdatesAlways(depth) == 1

\* `if self.sub.len() < 2 { self.update().await; }`: update() calls made by
\* process_event when `depth` messages are left in the queue
ProcessEventUpdates(depth) == IF depth < QUEUE_THRESHOLD THEN 1 ELSE 0

\* the poll made subject to the queue threshold as well
PollUpdatesGuarded(depth) == IF depth < QUEUE_THRESHOLD THEN 1 ELSE 0

\* the timer branch of the polling loop: update() is the poll entry point and
\* has no condition on the queue
PollUpdates(depth) == 1

\* the handle put back whatever the draw pass returned
AfterDrawKeep(outcome, session) == session

\* `if let Ok(Ok(_)) = draw.. { self.display = Some(display); }`: self.display
\* after the draw arm, the session otherwise dropped at the end of the arm
AfterDraw(outcome, session) == IF outcome = "ok" THEN session ELSE 0

\* only the timeout checked: `if let Ok(_)` in place of `if let Ok(Ok(_))`
AfterInitOuterOnly(outcome, session) ==
    IF outcome # "timeout" THEN session ELSE 0

\* `if let Ok(Ok(_)) = init.. { self.display = Some(display); }`
AfterInit(outcome, session) == IF outcome = "ok" THEN session ELSE 0

\* two names suffice to tell a session from the one before it
NextId(id) == IF id = 1 THEN 2 ELSE 1

\* the tick counter saturates at 2, "two or more"
Saturate(n) == IF n > 2 THEN 2 ELSE n

Invocation(handler, n) ==
    [handler |-> handler, updates |-> n, pre |-> display,
     op |-> "none", resp |-> NoResponse, outcome |-> "none", ops |-> <<>>,
     stale |-> FALSE]

\* update() up to its await: self.display.take(), and in the None arm the
\* construction of a new driver session (Twim::new .. Ssd1306Async::new)
\* the handle is read without being taken out of the controller
UpdateStartKeepHandle ==
    /\ display' = display
    /\ IF display # 0
       THEN /\ held' = display
            /\ lastId' = lastId
            /\ pc' = "drawing"
       ELSE /\ held' = NextId(lastId)
            /\ lastId' = NextId(lastId)
            /\ pc' = "initializing"

\* update(): match self.display.take()
UpdateStart ==
    /\ display' = 0
    /\ IF display # 0
       THEN /\ held' = display
            /\ lastId' = lastId
            /\ pc' = "drawing"
       ELSE /\ held' = NextId(lastId)
            /\ lastId' = NextId(lastId)
            /\ pc' = "initializing"

NoUpdate == UNCHANGED <<display, held, lastId, pc>>

TypeOK ==
    /\ layer \in 0..U8_MAX /\ modifiers \in 0..U8_MAX /\ battery \in 0..U8_MAX
    /\ display \in 0..2 /\ held \in 0..2 /\ lastId \in 0..2
    /\ Len(sub) <= MaxQueue
    /\ pc \in {"idle", "drawing", "initializing", "panicked"}
    /\ tickUpdates \in 0..2

\* DisplayController::new
Init ==
    /\ layer = 0
    /\ modifiers = 0
    /\ battery = 0
    /\ display = 0
    /\ held = 0
    /\ lastId = 0
    /\ fb = {}
    /\ flushed = NoFrame
    /\ sub = <<>>
    /\ pc = "idle"
    /\ last = Invocation("none", 0)
    /\ tickUpdates = 0

\* a producer publishes on the channel (a panic halts the firmware, producers
\* included)
Publish(event) ==
    /\ pc # "panicked"
    /\ Len(sub) < MaxQueue
    /\ sub' = Append(sub, event)
    /\ UNCHANGED <<layer, modifiers, battery, display, held, lastId, fb,
                   flushed, pc, last, tickUpdates>>

\* next_message() then process_event(event)
ProcessEvent ==
    /\ pc = "idle"
    /\ sub # <<>>
    /\ LET event == Head(sub)
           depth == Len(sub) - 1
           n == ProcessEventUpdates(depth)
       IN /\ sub' = Tail(sub)
          /\ layer' = LayerAfter(event, layer)
          /\ modifiers' = ModifiersAfter(event, modifiers)
          /\ battery' = BatteryAfter(event, battery)
          /\ IF n > 0 THEN UpdateStart ELSE NoUpdate
          /\ tickUpdates' = Saturate(tickUpdates + n)
          /\ last' = Invocation("process_event", n)
    /\ UNCHANGED <<fb, flushed>>

\* the timer of the polling loop fires (INTERVAL): update()
Poll ==
    /\ pc = "idle"
    /\ LET n == PollUpdates(Len(sub))
       IN /\ IF n > 0 THEN UpdateStart ELSE NoUpdate
          /\ tickUpdates' = n
          /\ last' = Invocation("poll", n)
    /\ UNCHANGED <<layer, modifiers, battery, fb, flushed, sub>>

\* update(), Some arm: the draw pass ends (result, timeout or panic)
DrawDone(failAt, resp) ==
    /\ pc = "drawing"
    /\ LET pass == DrawPass(layer, modifiers, battery, failAt)
           answer == IF pass.status = "flush" THEN resp ELSE NoResponse
           outcome == IF pass.status = "flush"
                      THEN WithTimeout(DRAW_TIMEOUT_MS, resp)
                      ELSE pass.status
       IN /\ last' = [last EXCEPT !.op = "draw", !.resp = answer,
                                  !.outcome = outcome, !.ops = pass.ops,
                                  !.stale = (fb \ Range(pass.ops) # {})]
          /\ IF outcome = "panic"
             THEN /\ pc' = "panicked"
                  /\ fb' = BufferAfter(fb, pass.ops)
                  /\ UNCHANGED <<display, held, flushed>>
             ELSE /\ pc' = "idle"
                  /\ display' = AfterDraw(outcome, held)
                  /\ held' = 0
                  /\ fb' = IF AfterDraw(outcome, held) # 0
                           THEN BufferAfter(fb, pass.ops) ELSE {}
                  /\ flushed' = IF outcome = "ok"
                                THEN Frame(pass.ops, layer, modifiers, battery)
                                ELSE flushed
    /\ UNCHANGED <<layer, modifiers, battery, lastId, sub, tickUpdates>>

\* update(), None arm: display.init() ends (result or timeout)
InitDone(resp) ==
    /\ pc = "initializing"
    /\ LET outcome == WithTimeout(INIT_TIMEOUT_MS, resp)
       IN /\ last' = [last EXCEPT !.op = "init", !.resp = resp,
                                  !.outcome = outcome]
          /\ display' = AfterInit(outcome, held)
    /\ pc' = "idle"
    /\ held' = 0
    /\ fb' = {}
    /\ UNCHANGED <<layer, modifiers, battery, lastId, flushed, sub,
                   tickUpdates>>

Next ==
    \/ \E event \in Events : Publish(event)
    \/ ProcessEvent
    \/ Poll
    \/ \E failAt \in FailPoints, resp \in Responses : DrawDone(failAt, resp)
    \/ \E resp \in Responses : InitDone(resp)

Spec == Init /\ [][Next]_vars

\* the hardware answers in time and without error
Success == [latency |-> 10, result |-> "ok"]

\* The polling loop's scheduling: whenever it is back at its select, a queued
\* message is taken and the timer fires in the end (strong fairness: a pass
\* in between suspends both), and an awaited pass or bring-up ends, by its
\* deadline at the latest; bring-up attempts succeed again and again.
SpecLive ==
    /\ Init /\ [][Next]_vars
    /\ SF_vars(ProcessEvent)
    /\ SF_vars(Poll)
    /\ WF_vars(\E failAt \in FailPoints, resp \in Responses :
                  DrawDone(failAt, resp))
    /\ WF_vars(\E resp \in Responses : InitDone(resp))
    /\ SF_vars(InitDone(Success))

\* Producers have stopped: up to MaxQueue events are queued behind a freshly
\* constructed controller, nothing more is published, and the display
\* hardware answers every request successfully.
InitQuiet ==
    /\ layer = 0
    /\ modifiers = 0
    /\ battery = 0
    /\ display = 0
    /\ held = 0
    /\ lastId = 0
    /\ fb = {}
    /\ flushed = NoFrame
    /\ sub \in UNION {[1..n -> Events] : n \in 0..MaxQueue}
    /\ pc = "idle"
    /\ last = Invocation("none", 0)
    /\ tickUpdates = 0

NextQuiet ==
    \/ ProcessEvent
    \/ Poll
    \/ DrawDone(0, Success)
    \/ InitDone(Success)

SpecQuiet ==
    /\ InitQuiet /\ [][NextQuiet]_vars
    /\ SF_vars(ProcessEvent)
    /\ SF_vars(Poll)
    /\ WF_vars(DrawDone(0, Success))
    /\ WF_vars(InitDone(Success))

----------------------------------------------------------------------------
(* Rendering: the display has just been brought up by a timer poll, the    *)
(* Status State is whatever the events so far made it, and no producer     *)
(* publishes.  Every layer up to MaxLayer and every modifier mask occurs.  *)

BatteryLevels == {0, 4, 100}

InitRender ==
    /\ layer \in 0..MaxLayer
    /\ modifiers \in 0..U8_MAX
    /\ battery \in BatteryLevels
    /\ display = 1
    /\ held = 0
    /\ lastId = 1
    /\ fb = {}
    /\ flushed = NoFrame
    /\ sub = <<>>
    /\ pc = "idle"
    /\ last = [Invocation("poll", 1) EXCEPT
                 !.pre = 0, !.op = "init", !.outcome = "ok",
                 !.resp = [latency |-> 10, result |-> "ok"]]
    /\ tickUpdates = 1

NextRender ==
    \/ Poll
    \/ \E failAt \in FailPoints, resp \in Responses : DrawDone(failAt, resp)
    \/ \E resp \in Responses : InitDone(resp)

SpecRender == InitRender /\ [][NextRender]_vars

----------------------------------------------------------------------------
(* Event handling: the display is up, one or two messages of any kind and  *)
(* payload are queued behind a Status State set by earlier events, and no  *)
(* producer publishes meanwhile.                                           *)

EventsWide ==
    {Event("Layer", v) : v \in {0, 7, MaxLayer}}
    \cup {Event("Modifier", v) : v \in {0, 1, 32, U8_MAX}}
    \cup {Event("Battery", v) : v \in {0, 50, 100, U8_MAX}}
    \cup {Event("Other", v) : v \in {0, 9}}

InitEvents ==
    /\ layer \in {0, 7}
    /\ modifiers = 33
    /\ battery \in {0, 100}
    /\ display = 1
    /\ held = 0
    /\ lastId = 1
    /\ fb = {}
    /\ flushed = NoFrame
    /\ sub \in {<<>>} \cup {<<e>> : e \in EventsWide}
               \cup {<<e1, e2>> : e1 \in EventsWide, e2 \in EventsWide}
    /\ pc = "idle"
    /\ last = [Invocation("poll", 1) EXCEPT
                 !.pre = 0, !.op = "init", !.outcome = "ok",
                 !.resp = [latency |-> 10, result |-> "ok"]]
    /\ tickUpdates = 1

NextEvents ==
    \/ ProcessEvent
    \/ Poll
    \/ \E failAt \in FailPoints, resp \in Responses : DrawDone(failAt, resp)
    \/ \E resp \in Responses : InitDone(resp)

SpecEvents == InitEvents /\ [][NextEvents]_vars

----------------------------------------------------------------------------
(* Draw passes in which any one draw call may fail: the display is up, the  *)
(* Status State is fixed, and polls redraw it.                              *)

InitAbort ==
    /\ layer \in {0, 3, 7}
    /\ modifiers \in {0, 34, U8_MAX}
    /\ battery \in {50}
    /\ display = 1
    /\ held = 0
    /\ lastId = 1
    /\ fb = {}
    /\ flushed = NoFrame
    /\ sub = <<>>
    /\ pc = "idle"
    /\ last = [Invocation("poll", 1) EXCEPT
                 !.pre = 0, !.op = "init", !.outcome = "ok", !.resp = Success]
    /\ tickUpdates = 1

NextAbort ==
    \/ Poll
    \/ \E failAt \in 0..MaxSteps, resp \in Responses : DrawDone(failAt, resp)
    \/ \E resp \in Responses : InitDone(resp)

SpecAbort == InitAbort /\ [][NextAbort]_vars

----------------------------------------------------------------------------
(* Display lifecycle *)

\* C1: when update() ran with a handle present and has returned, the handle
\* is absent if the draw pass timed out (no answer within 100 ms) or returned
\* an error, and the same handle is present again if the pass succeeded.
C1_DrawOutcomeDecidesHandle ==
    (pc = "idle" /\ last.op = "draw") =>
        /\ last.pre # 0
        /\ last.outcome \in {"ok", "err", "timeout"}
        /\ (last.outcome = "ok" => display = last.pre)
        /\ (last.outcome \in {"err", "timeout"} => display = 0)
        /\ (last.resp # NoResponse =>
              (last.outcome = "timeout" <=> last.resp.latency >= 100))
        /\ (last.resp # NoResponse /\ last.resp.latency < 100 =>
              last.outcome = last.resp.result)

C1_Witness ==
    /\ pc = "idle" /\ last.op = "draw" /\ last.pre # 0
    /\ last.outcome = "timeout" /\ display = 0

\* C2: when update() ran with no handle and has returned, a handle is present
\* exactly if init answered ok within 1 s; otherwise the state is still
\* Uninitialized; and that update() call drew nothing.
C2_InitOutcomeDecidesHandle ==
    (pc = "idle" /\ last.op = "init") =>
        /\ last.pre = 0
        /\ (display # 0 <=>
              (last.resp.result = "ok" /\ last.resp.latency < 1000))
        /\ (display # 0 => display = lastId)
        /\ last.ops = <<>>
        /\ fb = {}

C2_Witness ==
    /\ pc = "idle" /\ last.op = "init" /\ last.pre = 0
    /\ last.resp.result = "ok" /\ last.resp.latency >= 1000 /\ display = 0

----------------------------------------------------------------------------
(* Backpressure and invocations of update() *)

\* a step that invokes update(): the task leaves idle
UpdateInvoked == pc = "idle" /\ pc' \in {"drawing", "initializing"}

\* a step of process_event: the task takes a message off its queue
EventTaken == pc = "idle" /\ Len(sub') < Len(sub)

\* C3 as stated: update() is never invoked, on any path, while 2 or more
\* messages are queued.
C3_Original == [][UpdateInvoked => Len(sub') < 2]_vars

\* C3 as amended: a process_event invocation that leaves 2 or more messages
\* queued invokes no update() (no draw, no bring-up), whatever the event was.
C3_ProcessEventBackpressure ==
    [][(EventTaken /\ Len(sub') >= 2) =>
         (~UpdateInvoked /\ pc' = "idle" /\ display' = display
          /\ held' = held /\ flushed' = flushed)]_vars

C3_Witness ==
    /\ pc = "idle" /\ last.handler = "process_event" /\ last.updates = 0
    /\ Len(sub) >= 2

\* C4 as stated: between one timer poll and the next, update() is invoked at
\* most once.
C4_Original == tickUpdates <= 1

\* C4 as amended: every handler invocation invokes update() at most once, a
\* timer poll exactly once; an update() in progress is the one its handler
\* invocation made.
C4_OncePerInvocation ==
    /\ last.updates \in {0, 1}
    /\ (last.handler = "poll" => last.updates = 1)
    /\ (last.updates = 0 => last.op = "none" /\ pc \in {"idle", "panicked"})
    /\ (pc \in {"drawing", "initializing"} =>
          last.updates = 1 /\ last.op = "none")

C4_Witness ==
    /\ tickUpdates = 2 /\ last.handler = "process_event" /\ last.updates = 1
    /\ last.op = "draw" /\ pc = "idle"

----------------------------------------------------------------------------
(* Layer index and panics *)

\* C5: the stored layer index is always a valid index into LAYER_NAMES.
C5_LayerInRange == layer \in 0..(Len(LAYER_NAMES) - 1)

\* C6: no handler invocation ever panics.
C6_NoPanic == pc # "panicked"

----------------------------------------------------------------------------
(* Frame renderer *)

\* the last draw pass issued every draw call and got as far as flush()
PassComplete == last.op = "draw" /\ last.resp # NoResponse

Texts(ops) == {p \in Range(ops) : p.kind = "text"}

\* C7: for a layer index i in 0..7, a complete draw pass draws the name at i
\* at the centre anchor in the primary font, the name at i-1 above the centre
\* exactly if i > 0, and the name at i+1 below the centre exactly if i < 7,
\* and no other text.
C7_LayerLabels ==
    (PassComplete /\ layer \in 0..7) =>
        LET texts == Texts(last.ops)
            center == {p \in texts : p.dy = 0}
            above == {p \in texts : p.dy < 0}
            below == {p \in texts : p.dy > 0}
        IN /\ Cardinality(center) = 1
           /\ \A p \in center :
                /\ p.idx = layer /\ p.what = LAYER_NAMES[layer + 1]
                /\ p.style = "character_style" /\ p.dx = 0
           /\ (above # {} <=> layer > 0)
           /\ Cardinality(above) <= 1
           /\ \A p \in above :
                /\ p.idx = layer - 1 /\ p.what = LAYER_NAMES[layer]
                /\ p.style = "character_smaller" /\ p.dx = 0 /\ p.dy = -12
           /\ (below # {} <=> layer < 7)
           /\ Cardinality(below) <= 1
           /\ \A p \in below :
                /\ p.idx = layer + 1 /\ p.what = LAYER_NAMES[layer + 2]
                /\ p.style = "character_smaller" /\ p.dx = 0 /\ p.dy = 12
           /\ (last.outcome = "ok" =>
                 flushed = Frame(last.ops, layer, modifiers, battery))

C7_Witness ==
    /\ PassComplete /\ last.outcome = "ok" /\ layer = 7
    /\ Cardinality(Texts(flushed.ops)) = 2

\* the four modifier families: icon, horizontal offset from the centre, and
\* the bits of the left and right flag in the mask
Families ==
    { [raw |-> "raw_shift", dx |-> 0, left |-> 1, right |-> 5],
      [raw |-> "raw_ctrl", dx |-> 15, left |-> 0, right |-> 4],
      [raw |-> "raw_alt", dx |-> 30, left |-> 2, right |-> 6],
      [raw |-> "raw_gui", dx |-> 45, left |-> 3, right |-> 7] }

\* C8: in a complete draw pass each family's icon is drawn once, at its fixed
\* horizontal offset (0, 15, 30, 45) whatever the mask; it is raised by 4 and
\* its underline bar is drawn exactly if the left or the right flag is set.
C8_ModifierIcons ==
    PassComplete =>
        \A fam \in Families :
            LET isHeld == Bit(modifiers, fam.left) \/ Bit(modifiers, fam.right)
                icons == {p \in Range(last.ops) :
                            p.kind = "image" /\ p.what = fam.raw}
                bars == {p \in Range(last.ops) :
                            p.what = "bar" /\ p.dx = fam.dx}
            IN /\ Cardinality(icons) = 1
               /\ \A p \in icons :
                    /\ p.dx = fam.dx
                    /\ (p.dy = -4 <=> isHeld)
                    /\ (p.dy = 0 <=> ~isHeld)
               /\ (bars # {} <=> isHeld)
               /\ \A p \in bars : p.dy = 5 /\ p.h = 2
        /\ Cardinality({p \in Range(last.ops) : p.kind = "image"}) = 4
        /\ Cardinality({p \in Range(last.ops) : p.what = "bar"}) <= 4

\* right shift alone is held: the shift icon is raised and underlined
C8_Witness ==
    /\ PassComplete /\ last.outcome = "ok" /\ modifiers = 32
    /\ \E p \in Range(flushed.ops) : p.what = "raw_shift" /\ p.dy = -4
    /\ \E p \in Range(flushed.ops) : p.what = "bar" /\ p.dx = 0

\* the height (rows) of the fill rectangle of a frame
FillHeight(ops) ==
    LET fills == {p \in Range(ops) : p.what = "fill"}
    IN (CHOOSE p \in fills : TRUE).h

InPercent(b) == b \in 0..100

\* C9: of two frames flushed one after the other from battery levels p <= q
\* in 0..100, the fill rectangle of the first is no higher than that of the
\* second.
C9_FillMonotone ==
    [][(/\ flushed.from # <<>> /\ flushed'.from # <<>>
        /\ InPercent(flushed.from[3]) /\ InPercent(flushed'.from[3])
        /\ flushed.from[3] <= flushed'.from[3])
       => FillHeight(flushed.ops) <= FillHeight(flushed'.ops)]_vars

\* C10: the fill rectangle of a flushed frame has height 0 at battery 0 and
\* the height of the outline, 32 rows, at battery 100.
C10_FillEnds ==
    flushed.from # <<>> =>
        /\ (flushed.from[3] = 0 => FillHeight(flushed.ops) = 0)
        /\ (flushed.from[3] = 100 => FillHeight(flushed.ops) = 32)

\* C11: the frame buffer after a successful draw pass holds exactly the
\* primitives of the current Status State, whatever it held before the pass
\* and whatever was rendered earlier; so two successful passes with the same
\* Status State leave identical content, and that content is what was flushed.
C11_FrameIsFunctionOfStatus ==
    (pc = "idle" /\ last.op = "draw" /\ last.outcome = "ok") =>
        /\ fb = Range(DrawSteps(layer, modifiers, battery))
        /\ flushed.from = <<layer, modifiers, battery>>
        /\ fb = Range(flushed.ops)

\* a successful pass over a buffer that held another frame
C11_Witness ==
    /\ pc = "idle" /\ last.op = "draw" /\ last.outcome = "ok" /\ last.stale
    /\ fb = Range(flushed.ops)

----------------------------------------------------------------------------
(* Status State *)

\* C12: process_event overwrites exactly one field with the payload of its
\* event - Layer the layer, Modifier the whole mask, Battery the battery -
\* and leaves the other two unchanged; any other event changes none.
C12_EventOverwritesOneField ==
    [][EventTaken =>
         LET event == Head(sub)
         IN /\ sub' = Tail(sub)
            /\ (event.kind = "Layer" =>
                  /\ layer' = event.val
                  /\ modifiers' = modifiers /\ battery' = battery)
            /\ (event.kind = "Modifier" =>
                  /\ modifiers' = event.val
                  /\ layer' = layer /\ battery' = battery)
            /\ (event.kind = "Battery" =>
                  /\ battery' = event.val
                  /\ layer' = layer /\ modifiers' = modifiers)
            /\ (event.kind \notin {"Layer", "Modifier", "Battery"} =>
                  /\ layer' = layer /\ modifiers' = modifiers
                  /\ battery' = battery)]_vars

\* the mask 33 (left ctrl, right shift) has been replaced by 1 (left ctrl)
C12_Witness ==
    /\ last.handler = "process_event" /\ modifiers = 1 /\ sub = <<>>

----------------------------------------------------------------------------
(* Ownership of the driver session *)

\* a driver session is constructed: Twim::new over clone_unchecked handles
SessionConstructed == lastId' # lastId

\* C13: at most one driver session exists at any moment - the controller's
\* field and the running update() never own one at the same time - and a new
\* session is constructed only by an update() that found no handle, when no
\* earlier session is alive.
C13_SingleSession ==
    /\ [](/\ ~(display # 0 /\ held # 0)
          /\ (pc = "idle" => held = 0)
          /\ (pc = "drawing" => held # 0 /\ held = last.pre)
          /\ (pc = "initializing" => held = lastId /\ last.pre = 0))
    /\ [][SessionConstructed =>
            /\ display = 0 /\ held = 0
            /\ pc = "idle" /\ pc' = "initializing"
            /\ display' = 0 /\ held' = lastId']_vars

\* a second session is being brought up after the first one was dropped
C13_Witness ==
    /\ pc = "initializing" /\ held = 2 /\ display = 0 /\ last.pre = 0

----------------------------------------------------------------------------
(* Progress *)

\* the controller owns an initialized display (stored, or held by a pass)
Ready == display # 0 \/ pc = "drawing"

\* C14: there is no permanent failure state: when bring-up attempts succeed
\* again and again, the controller is Ready again and again, whatever state
\* it was in.
C14_SelfHealing == []<>Ready

\* C15: every update() invocation terminates: a pass or a bring-up that has
\* started gives control back to the polling loop.
C15_UpdateTerminates == (pc \in {"drawing", "initializing"}) ~> (pc = "idle")

\* C16: once producers have stopped and the hardware answers successfully,
\* the queue is drained and the flushed frame is the one rendered from the
\* final Status State, from some point on.
C16_EventuallyConsistent ==
    <>[](sub = <<>> /\ flushed.from = <<layer, modifiers, battery>>)

----------------------------------------------------------------------------
(* Redraw and the queue *)

\* a draw pass is started
RedrawIssued == UpdateInvoked /\ pc' = "drawing"

\* C17 as stated: a redraw is issued only once the queue is drained - no pass
\* starts while an event that was already queued is still unapplied.
C17_Original == [][RedrawIssued => sub' = <<>>]_vars

\* C17 as amended: a redraw issued by process_event renders the Status State
\* with the event just taken applied, and starts with at most one earlier
\* queued event still unapplied; a flushed frame is rendered from the Status
\* State of its pass, final or not.
C17_RedrawNearlyDrained ==
    /\ [][(EventTaken /\ RedrawIssued) =>
            /\ Len(sub') <= QUEUE_THRESHOLD - 1
            /\ layer' = LayerAfter(Head(sub), layer)
            /\ modifiers' = ModifiersAfter(Head(sub), modifiers)
            /\ battery' = BatteryAfter(Head(sub), battery)]_vars
    /\ [][(pc = "drawing" /\ flushed' # flushed) =>
            flushed'.from = <<layer, modifiers, battery>>]_vars

\* a pass issued by process_event runs while one queued event is unapplied
\* (nothing is published in this specification)
C17_Witness ==
    /\ pc = "drawing" /\ last.handler = "process_event" /\ Len(sub) = 1

----------------------------------------------------------------------------
(* Errors inside a draw pass *)

IsPrefix(s, t) == Len(s) <= Len(t) /\ s = SubSeq(t, 1, Len(s))

\* flush() was awaited in the last pass
FlushIssued == last.op = "draw" /\ last.resp # NoResponse

\* a draw call of the last pass returned Err
DrawFailed == last.op = "draw" /\ last.outcome = "err" /\ ~FlushIssued

\* C18: a pass draws a prefix of its primitives into the cleared buffer; when
\* a draw call fails, nothing after it is drawn, flush is not issued, the
\* flushed frame stays what it was and update() drops the handle as for any
\* redraw failure; flush is issued only after every primitive was drawn.
C18_FirstFailureAborts ==
    /\ [](last.op = "draw" =>
            LET steps == DrawSteps(layer, modifiers, battery)
            IN /\ IsPrefix(last.ops, steps)
               /\ (display # 0 => fb = Range(last.ops))
               /\ (FlushIssued => last.ops = steps)
               /\ (DrawFailed =>
                     /\ Len(last.ops) < Len(steps)
                     /\ display = 0 /\ held = 0 /\ pc = "idle"))
    /\ [][(pc = "drawing" /\ ~FlushIssued') => flushed' = flushed]_vars

\* the fourth draw call or a later one failed, over a frame flushed before
C18_Witness ==
    /\ DrawFailed /\ Len(last.ops) >= 3 /\ flushed # NoFrame /\ display = 0

----------------------------------------------------------------------------
(* The gauge on the surface *)

\* the fill rectangle of a frame
FillOf(ops) == CHOOSE p \in Range(ops) : p.what = "fill"

\* C19: for a battery level p in 0..100, the fill of a flushed frame has its
\* first corner on a row 32 - (p*32)/100 in 0..31, ends on row 31, the last
\* row of the surface, and is (p*32)/100 rows high.
C19_FillInsideSurface ==
    (flushed.from # <<>> /\ InPercent(flushed.from[3])) =>
        LET p == flushed.from[3]
            fill == FillOf(flushed.ops)
        IN /\ FillTop(p) \in 0..31
           /\ fill.dy \in 0..31
           /\ fill.dy + fill.h - 1 = 31
           /\ fill.h = (p * 32) \div 100

====
